---------------------------- MODULE Spec2Model ----------------------------
(***************************************************************************)
(* Model of auto-rag: the Markdown-to-chunk pipeline (rag_utils.py), the   *)
(* LEANN vector store adapter (vector_store.py) and the command that ties  *)
(* them together (main.py).                                                *)
(*                                                                         *)
(* Text is a sequence of one-character strings.  The alphabet is small but *)
(* holds every character class the code distinguishes: the heading         *)
(* character, the space, the line break and an ordinary letter.            *)
(***************************************************************************)
EXTENDS Integers, Sequences, FiniteSets, TLC

VARIABLES
    \* --- split_to_chunks / parse_all_headers applied to one body
    body,           \* the text handed to the chunker
    splitDone,      \* whether split_to_chunks has been applied
    splitOut,       \* its result
    headersOut,     \* result of parse_all_headers on the same body
    \* --- process_markdown_docs over a tree of Markdown files
    tree,           \* the files under docs_dir, in walk order, with sidecars
    auto_generate_yaml,
    overwrite_yaml,
    runs,           \* completed calls of process_markdown_docs
    all_chunks,     \* the chunk accumulator the latest call returned
    report,         \* the report the latest call returned
    treeBefore,     \* the tree as the latest call found it
    prevChunks,     \* the accumulator the call before the latest returned
    \* --- one LEANNStore instance and its storage root
    has_leann,      \* HAS_LEANN: whether the backend could be imported
    disk,           \* index name -> passages, for the indexes that exist
    constructed,    \* whether the instance exists
    store,          \* its builder, searcher and current_index_name
    lastCall,       \* the latest call on the instance, with its outcome
    lastGood,       \* name and passages of the latest successful upload
    prevGood,       \* the same for the successful upload before it
    uploadCalled,   \* whether upload_chunks was ever called on the instance
    \* --- one execution of the command main.run
    pc,             \* where the command is
    docs_exists,    \* whether docs_path exists
    dry_run,
    opt_index_name,     \* the --index-name option, None when not given
    reportWrites,   \* how many times the report file was written
    uploadOutcome   \* how the upload phase ended

splitVars == <<body, splitDone, splitOut, headersOut>>
docsVars == <<tree, auto_generate_yaml, overwrite_yaml, runs, all_chunks,
              report, treeBefore, prevChunks>>

storeVars == <<has_leann, disk, constructed, store, lastCall, lastGood,
               prevGood, uploadCalled>>

runVars == <<pc, docs_exists, dry_run, opt_index_name, reportWrites,
             uploadOutcome>>

vars == <<splitVars, docsVars, storeVars, runVars>>

---------------------------------------------------------------------------
(* Bounds *)

MaxBodyLen == 8
MaxFiles == 2
MaxRuns == 2
MaxChunks == 2

---------------------------------------------------------------------------
(* Text helpers: str.splitlines, str.startswith, str.strip, str.join *)

NL == "\n"
Chars == {"#", " ", "a", NL}
Whitespace == {" ", NL}
HeadingPrefix == <<"#", "#", " ">>

SeqsUpTo(S, n) == UNION {[1..k -> S] : k \in 0..n}

RECURSIVE SplitLinesFrom(_, _, _, _)
SplitLinesFrom(s, i, cur, acc) ==
    IF i > Len(s)
    THEN IF cur = <<>> THEN acc ELSE Append(acc, cur)
    ELSE IF s[i] = NL
         THEN SplitLinesFrom(s, i + 1, <<>>, Append(acc, cur))
         ELSE SplitLinesFrom(s, i + 1, Append(cur, s[i]), acc)

\* str.splitlines(): lines without their terminators; a trailing line
\* break opens no further line.
splitlines(s) == SplitLinesFrom(s, 1, <<>>, <<>>)

startswith(line, prefix) ==
    /\ Len(line) >= Len(prefix)
    /\ SubSeq(line, 1, Len(prefix)) = prefix

RECURSIVE lstrip(_)
lstrip(s) ==
    IF s # <<>> /\ s[1] \in Whitespace THEN lstrip(Tail(s)) ELSE s

RECURSIVE rstrip(_)
rstrip(s) ==
    IF s # <<>> /\ s[Len(s)] \in Whitespace
    THEN rstrip(SubSeq(s, 1, Len(s) - 1))
    ELSE s

strip(s) == rstrip(lstrip(s))

RECURSIVE JoinLines(_)
\* '\n'.join(lines)
JoinLines(lines) ==
    IF lines = <<>> THEN <<>>
    ELSE IF Len(lines) = 1 THEN lines[1]
    ELSE lines[1] \o <<NL>> \o JoinLines(Tail(lines))

---------------------------------------------------------------------------
(* rag_utils.split_to_chunks and rag_utils.parse_all_headers *)

IsBreakMarker(line) == startswith(line, HeadingPrefix)

\* The flush of the accumulation buffer:
\* if buf: chunks.append('\n'.join(buf).strip())
FlushBuf(chunks, buf) ==
    IF buf # <<>> THEN Append(chunks, strip(JoinLines(buf))) ELSE chunks

RECURSIVE SplitLoop(_, _, _, _)
SplitLoop(lines, i, chunks, buf) ==
    IF i > Len(lines)
    THEN FlushBuf(chunks, buf)
    ELSE IF IsBreakMarker(lines[i])
         THEN SplitLoop(lines, i + 1, FlushBuf(chunks, buf), <<lines[i]>>)
         ELSE SplitLoop(lines, i + 1, chunks, Append(buf, lines[i]))

\* Variant of the final comprehension that keeps every chunk.
DropEmptyKeepAll(chunks) == chunks

\* The final comprehension [ch for ch in chunks if ch]
DropEmpty(chunks) == SelectSeq(chunks, LAMBDA ch : ch # <<>>)

split_to_chunks(content) ==
    DropEmpty(SplitLoop(splitlines(content), 1, <<>>, <<>>))

RECURSIVE HeaderLoop(_, _, _)
HeaderLoop(lines, i, acc) ==
    IF i > Len(lines) THEN acc
    ELSE IF IsBreakMarker(lines[i])
         THEN HeaderLoop(lines, i + 1,
                         Append(acc, strip(SubSeq(lines[i], 4, Len(lines[i])))))
         ELSE HeaderLoop(lines, i + 1, acc)

parse_all_headers(content) == HeaderLoop(splitlines(content), 1, <<>>)

---------------------------------------------------------------------------
(* Sidecar descriptor files and rag_utils.load_yaml_metadata               *)
(*                                                                         *)
(* The content of a sidecar file is what yaml.safe_load makes of it:       *)
(*   absent     the file does not exist                                    *)
(*   malformed  safe_load raises                                           *)
(*   nondict    safe_load returns a truthy value that is no mapping        *)
(*   map        safe_load returns a mapping (or nothing, for an empty      *)
(*              file): hasId/id are its doc_id key, tagsKind/tagsVal its   *)
(*              tags key ("absent", a "scalar" held as the one element of  *)
(*              tagsVal, or a "list")                                      *)

None == "<None>"

Content(kind, hasId, id, tagsKind, tagsVal) ==
    [kind |-> kind, hasId |-> hasId, id |-> id,
     tagsKind |-> tagsKind, tagsVal |-> tagsVal]

Absent == Content("absent", FALSE, None, "absent", <<>>)
Malformed == Content("malformed", FALSE, None, "absent", <<>>)
NonDict == Content("nondict", FALSE, None, "absent", <<>>)
EmptyMap == Content("map", FALSE, None, "absent", <<>>)

Exists(c) == c.kind # "absent"

\* The value load_yaml_metadata returns for one existing sidecar file:
\* the parsed value if truthy, {} when it is falsy or parsing raised.
ParseSidecar(c) ==
    IF c.kind = "malformed" THEN EmptyMap
    ELSE IF c.kind = "map" /\ ~c.hasId /\ c.tagsKind = "absent" THEN EmptyMap
    ELSE c

load_yaml_metadata(f) ==
    IF Exists(f.yaml) THEN ParseSidecar(f.yaml)
    ELSE IF Exists(f.yml) THEN ParseSidecar(f.yml)
    ELSE EmptyMap

\* metadata.get('doc_id')
MetaDocId(m) == IF m.hasId THEN m.id ELSE None

\* Truthiness of metadata.get('tags', [])
TagsTruthy(m) ==
    \/ m.tagsKind = "scalar"
    \/ m.tagsKind = "list" /\ m.tagsVal # <<>>

---------------------------------------------------------------------------
(* rag_utils.generate_yaml_metadata *)

\* Variant of the metadata dictionary that leaves the tags out.
DumpedMetadataNoTags(doc_id, tags) ==
    Content("map", TRUE, doc_id, "list", <<>>)

\* metadata = {'doc_id': doc_id, 'tags': tags if tags else []}, as the
\* file yaml.dump writes reads back.
DumpedMetadata(doc_id, tags) ==
    Content("map", TRUE, doc_id, "list", tags)

\* Result: whether the write raised, and the .yaml content afterwards.
\* An unwritable location makes open(yaml_path, 'w') raise and leaves the
\* file as it was.
generate_yaml_metadata(f, doc_id, tags, overwrite) ==
    IF Exists(f.yaml) /\ ~overwrite
    THEN [raised |-> FALSE, yaml |-> f.yaml]
    ELSE IF ~f.writable
         THEN [raised |-> TRUE, yaml |-> f.yaml]
         ELSE [raised |-> FALSE, yaml |-> DumpedMetadata(doc_id, tags)]

---------------------------------------------------------------------------
(* rag_utils.tag_chunks *)

Misc == <<"M", "i", "s", "c">>

tag_chunks(chunks, tags) ==
    [k \in 1..Len(chunks) |-> IF tags # <<>> THEN tags[1] ELSE Misc]

---------------------------------------------------------------------------
(* rag_utils.process_markdown_docs *)

\* f.stem of the i-th file of the walk
Stem(i) == "doc" \o ToString(i)

\* Variant of the reconciliation that lets the sidecar win under overwrite.
ReconcileIgnoresOverwrite(i, metadata, tags_from_headers, ow) ==
    [doc_id |-> IF metadata.hasId THEN metadata.id ELSE Stem(i),
     tags |-> IF TagsTruthy(metadata) THEN metadata.tagsVal
              ELSE tags_from_headers]

\* Lines 148-156: the reconciled doc_id and tags.
Reconcile(i, metadata, tags_from_headers, ow) ==
    IF ow
    THEN [doc_id |-> Stem(i), tags |-> tags_from_headers]
    ELSE [doc_id |-> IF metadata.hasId THEN metadata.id ELSE Stem(i),
          tags |-> IF TagsTruthy(metadata)
                   THEN metadata.tagsVal   \* a list, or [scalar]
                   ELSE tags_from_headers]

\* Lines 162-167
should_generate(f, metadata, doc_id, tags_from_headers, ow) ==
    \/ ~Exists(f.yaml)
    \/ ow
    \/ MetaDocId(metadata) # doc_id
    \/ (~TagsTruthy(metadata) /\ tags_from_headers # <<>>)

ChunkObj(i, text, doc_id, tag, tags) ==
    [text |-> text, doc_id |-> doc_id, tag |-> tag, tags |-> tags,
     path |-> i]

\* The body of the try block for the i-th file f: what it raised (or "ok"),
\* the file afterwards, the chunk objects and the report entry.
FileFailed(i, f, err) ==
    [err |-> err, file |-> f, chunks |-> <<>>,
     entry |-> [file |-> i, doc_id |-> None, tags |-> <<>>, chunks |-> 0]]

ProcessFile(i, f, auto, ow) ==
    IF ~f.readable THEN FileFailed(i, f, "read")
    ELSE
    LET metadata == load_yaml_metadata(f)
    IN  IF metadata.kind = "nondict" THEN FileFailed(i, f, "attribute")
        ELSE
        LET tags_from_headers == parse_all_headers(f.body)
            rec == Reconcile(i, metadata, tags_from_headers, ow)
            gen == IF auto /\ should_generate(f, metadata, rec.doc_id,
                                              tags_from_headers, ow)
                   THEN generate_yaml_metadata(f, rec.doc_id, rec.tags,
                                               ow \/ ~Exists(f.yaml))
                   ELSE [raised |-> FALSE, yaml |-> f.yaml]
            f2 == [f EXCEPT !.yaml = gen.yaml]
        IN  IF gen.raised THEN FileFailed(i, f2, "write")
            ELSE
            LET chunks == split_to_chunks(f.body)
                chunk_tags == tag_chunks(chunks, rec.tags)
            IN  [err |-> "ok", file |-> f2,
                 chunks |-> [k \in 1..Len(chunks) |->
                               ChunkObj(i, chunks[k], rec.doc_id,
                                        chunk_tags[k], rec.tags)],
                 entry |-> [file |-> i, doc_id |-> rec.doc_id,
                            tags |-> rec.tags, chunks |-> Len(chunks)]]

\* Variant of the except clause that records nothing.
OnFileErrorSilent(acc, i, r) == acc

\* Line 195: report["errors"].append({"file": str(f), "err": str(e)})
OnFileError(acc, i, r) ==
    [acc EXCEPT !.errors = Append(@, [file |-> i, err |-> r.err])]

\* Lines 176-193: the chunk objects, then the processed entry.
OnFileDone(acc, i, r) ==
    [acc EXCEPT !.chunks = @ \o r.chunks,
                !.processed = Append(@, r.entry)]

RECURSIVE DocsLoop(_, _, _, _)
DocsLoop(acc, i, auto, ow) ==
    IF i > Len(acc.tree) THEN acc
    ELSE LET r == ProcessFile(i, acc.tree[i], auto, ow)
             acc2 == [acc EXCEPT !.tree[i] = r.file]
         IN  DocsLoop(IF r.err = "ok" THEN OnFileDone(acc2, i, r)
                      ELSE OnFileError(acc2, i, r),
                      i + 1, auto, ow)

process_markdown_docs(t, auto, ow) ==
    DocsLoop([tree |-> t, chunks |-> <<>>, processed |-> <<>>,
              errors |-> <<>>], 1, auto, ow)

---------------------------------------------------------------------------
(* vector_store.LEANNStore                                                 *)
(*                                                                         *)
(* The storage root is a function from the names of the index directories  *)
(* that exist to the passages each holds.  The leann Builder and Searcher  *)
(* are the backend: a Builder collects the passages added to it and build  *)
(* writes them as the index at its path; a Searcher is opened on a path.   *)

Passage(text, hasMeta) == [text |-> text, hasMeta |-> hasMeta]

NoBuilder == [set |-> FALSE, path |-> None, added |-> <<>>]
NoSearcher == [set |-> FALSE, path |-> None, loaded |-> <<>>]

\* LEANNStore.__init__ (lines 31-35) after the HAS_LEANN check
NewStore ==
    [builder |-> NoBuilder, searcher |-> NoSearcher,
     current_index_name |-> None]

\* shutil.rmtree(index_path) when index_path.exists()
RmTree(dsk, name) == [n \in (DOMAIN dsk) \ {name} |-> dsk[n]]

\* Variant that keeps a Builder the instance already holds.
NewBuilderReused(st, name) ==
    IF st.builder.set THEN [st.builder EXCEPT !.path = name]
    ELSE [set |-> TRUE, path |-> name, added |-> <<>>]

\* self.builder = Builder(index_path=..., ...)
NewBuilder(st, name) == [set |-> TRUE, path |-> name, added |-> <<>>]

\* Variant of the per-chunk step that gives a rejected chunk up.
AddChunkNoFallback(added, c, rejected, textFails) ==
    IF ~rejected
    THEN [raised |-> FALSE, added |-> Append(added, Passage(c.text, TRUE))]
    ELSE [raised |-> FALSE, added |-> added]

\* Lines 68-76: add_text(text, metadata); when that raises,
\* add_text(text) alone, whose own failure leaves the loop.  A call of
\* add_text that raises adds nothing.
AddChunk(added, c, rejected, textFails) ==
    IF ~rejected
    THEN [raised |-> FALSE, added |-> Append(added, Passage(c.text, TRUE))]
    ELSE IF textFails
         THEN [raised |-> TRUE, added |-> added]
         ELSE [raised |-> FALSE,
               added |-> Append(added, Passage(c.text, FALSE))]

RECURSIVE AddLoop(_, _, _, _)
AddLoop(chunks, i, added, env) ==
    IF i > Len(chunks) THEN [raised |-> FALSE, added |-> added]
    ELSE LET r == AddChunk(added, chunks[i], i \in env.rejects,
                           env.fail = "text" /\ env.failAt = i)
         IN  IF r.raised THEN r
             ELSE AddLoop(chunks, i + 1, r.added, env)

\* What the backend does during one upload: the chunks whose metadata it
\* rejects, and whether the Builder constructor ("ctor"), the text-only
\* add of chunk failAt ("text") or build ("build") raises.
BackendEnvs(chunks) ==
    {[rejects |-> R, fail |-> k, failAt |-> 0] :
        R \in SUBSET (1..Len(chunks)), k \in {"none", "ctor", "build"}}
    \cup
    UNION {{[rejects |-> R, fail |-> "text", failAt |-> a] : a \in R} :
             R \in SUBSET (1..Len(chunks))}

\* LEANNStore.upload_chunks: the instance and the storage root afterwards,
\* and "ok" or the error raised.
upload_chunks(st, dsk, chunks, index_name, env) ==
    LET dsk1 == RmTree(dsk, index_name)
    IN  IF env.fail = "ctor"
        THEN [store |-> st, disk |-> dsk1, outcome |-> "BackendError"]
        ELSE
        LET b == NewBuilder(st, index_name)
            r == AddLoop(chunks, 1, b.added, env)
            st1 == [st EXCEPT !.builder = [b EXCEPT !.added = r.added]]
        IN  IF r.raised \/ env.fail = "build"
            THEN [store |-> st1, disk |-> dsk1, outcome |-> "BackendError"]
            ELSE [store |-> [st1 EXCEPT !.current_index_name = index_name],
                  disk |-> [n \in (DOMAIN dsk1) \cup {index_name} |->
                              IF n = index_name THEN r.added ELSE dsk1[n]],
                  outcome |-> "ok"]

\* Lines 110-111: the Searcher is opened on the first search only.
OpenSearcher(st, dsk) ==
    IF ~st.searcher.set
    THEN [set |-> TRUE, path |-> st.current_index_name,
          loaded |-> dsk[st.current_index_name]]
    ELSE st.searcher

\* Variant of the guard that answers with an empty result.
SearchNoIndexEmpty(st) ==
    [store |-> st, outcome |-> "ok",
     from |-> [name |-> None, passages |-> <<>>]]

\* Lines 101-102: raise ValueError when no index name is remembered
SearchNoIndex(st) ==
    [store |-> st, outcome |-> "ValueError",
     from |-> [name |-> None, passages |-> <<>>]]

\* LEANNStore.search.  A Searcher answers from the index at the path it
\* was opened on: from what it loaded when opened or from what is there
\* now (src names which), and it raises when it looks and finds nothing.
search(st, dsk, src) ==
    IF st.current_index_name = None THEN SearchNoIndex(st)
    ELSE IF st.current_index_name \notin DOMAIN dsk
    THEN [store |-> st, outcome |-> "ValueError",
          from |-> [name |-> None, passages |-> <<>>]]
    ELSE
    LET s == OpenSearcher(st, dsk)
        st1 == [st EXCEPT !.searcher = s]
    IN  IF src = "loaded"
        THEN [store |-> st1, outcome |-> "ok",
              from |-> [name |-> s.path, passages |-> s.loaded]]
        ELSE IF s.path \in DOMAIN dsk
        THEN [store |-> st1, outcome |-> "ok",
              from |-> [name |-> s.path, passages |-> dsk[s.path]]]
        ELSE [store |-> st1, outcome |-> "BackendError",
              from |-> [name |-> None, passages |-> <<>>]]

---------------------------------------------------------------------------
(* Specification of the chunker: any body, then one application *)

NoCall ==
    [op |-> "none", chunks |-> <<>>, name |-> None,
     env |-> [rejects |-> {}, fail |-> "none", failAt |-> 0],
     outcome |-> "none", from |-> [name |-> None, passages |-> <<>>]]

NoUpload == [name |-> None, passages |-> <<>>]

StoreIdle ==
    /\ has_leann = TRUE
    /\ disk = <<>>
    /\ constructed = FALSE
    /\ store = NewStore
    /\ lastCall = NoCall
    /\ lastGood = NoUpload
    /\ prevGood = NoUpload
    /\ uploadCalled = FALSE

RunIdle ==
    /\ pc = "idle"
    /\ docs_exists = TRUE
    /\ dry_run = FALSE
    /\ opt_index_name = None
    /\ reportWrites = 0
    /\ uploadOutcome = "none"

SplitIdle ==
    /\ body = <<>>
    /\ splitDone = FALSE
    /\ splitOut = <<>>
    /\ headersOut = <<>>

DocsIdle ==
    /\ tree = <<>>
    /\ auto_generate_yaml = TRUE
    /\ overwrite_yaml = FALSE
    /\ runs = 0
    /\ all_chunks = <<>>
    /\ report = [processed |-> <<>>, errors |-> <<>>]
    /\ treeBefore = <<>>
    /\ prevChunks = <<>>

InitSplit ==
    /\ body \in SeqsUpTo(Chars, MaxBodyLen)
    /\ splitDone = FALSE
    /\ splitOut = <<>>
    /\ headersOut = <<>>
    /\ DocsIdle
    /\ StoreIdle
    /\ RunIdle

ApplySplit ==
    /\ ~splitDone
    /\ splitDone' = TRUE
    /\ splitOut' = split_to_chunks(body)
    /\ headersOut' = parse_all_headers(body)
    /\ UNCHANGED <<body, docsVars, storeVars, runVars>>

NextSplit == ApplySplit

SpecSplit == InitSplit /\ [][NextSplit]_vars

---------------------------------------------------------------------------
(* Specification of the document processor: any tree and flags, then       *)
(* process_markdown_docs called on it up to MaxRuns times                  *)

TagT == <<"t">>
TagU == <<"u">>
BodyPlain == <<"i">>
BodyHead == <<"i", NL, "#", "#", " ", "s", NL, "x", NL, "#", "#", " ", "u">>
Bodies == {BodyPlain, BodyHead}

YamlContents ==
    {Absent, Malformed, NonDict, EmptyMap,
     Content("map", TRUE, "x", "list", <<TagT>>),
     Content("map", TRUE, "x", "list", <<>>),
     Content("map", FALSE, None, "list", <<TagT>>),
     Content("map", FALSE, None, "scalar", <<TagT>>),
     Content("map", TRUE, "x", "absent", <<>>)}

YmlContents ==
    {Absent, Malformed, NonDict,
     Content("map", TRUE, "y", "list", <<TagU>>),
     Content("map", FALSE, None, "scalar", <<TagU>>)}

File(b, r, w, ya, ym) ==
    [body |-> b, readable |-> r, writable |-> w, yaml |-> ya, yml |-> ym]

\* Every combination of body, readability, writability and sidecars.  (What
\* an unreadable file's directory allows is never asked.)
Files ==
    {f \in [body : Bodies, readable : BOOLEAN, writable : BOOLEAN,
            yaml : YamlContents, yml : YmlContents] :
        f.readable \/ f.writable}

\* The try block of process_markdown_docs reads nothing but the file it
\* is handling, so a tree is one file ranging over Files among files that
\* range over one representative per outcome of the try block: processed
\* with a sidecar written, processed with the sidecar kept, read failure,
\* sidecar write failure.
Companions ==
    {File(BodyHead, TRUE, TRUE, Absent, Absent),
     File(BodyPlain, TRUE, TRUE,
          Content("map", TRUE, "x", "list", <<TagT>>), Absent),
     File(BodyPlain, FALSE, TRUE, Absent, Absent),
     File(BodyHead, TRUE, FALSE, Absent, Absent)}

\* The trees of n files
Trees(n) ==
    {[j \in 1..n |-> IF j = k THEN f ELSE c[j]] :
        k \in 1..n, f \in Files, c \in [1..n -> Companions]}

InitDocs ==
    /\ \E n \in 1..MaxFiles : tree \in Trees(n)
    /\ auto_generate_yaml \in BOOLEAN
    /\ overwrite_yaml \in BOOLEAN
    /\ runs = 0
    /\ all_chunks = <<>>
    /\ report = [processed |-> <<>>, errors |-> <<>>]
    /\ treeBefore = tree
    /\ prevChunks = <<>>
    /\ SplitIdle
    /\ StoreIdle
    /\ RunIdle

RunDocs ==
    /\ runs < MaxRuns
    /\ LET r == process_markdown_docs(tree, auto_generate_yaml,
                                      overwrite_yaml)
       IN  /\ tree' = r.tree
           /\ all_chunks' = r.chunks
           /\ report' = [processed |-> r.processed, errors |-> r.errors]
    /\ treeBefore' = tree
    /\ prevChunks' = all_chunks
    /\ runs' = runs + 1
    /\ UNCHANGED <<auto_generate_yaml, overwrite_yaml, splitVars, storeVars,
                   runVars>>

NextDocs == RunDocs

SpecDocs == InitDocs /\ [][NextDocs]_vars

---------------------------------------------------------------------------
(* Specifications of one LEANNStore instance over a storage root           *)

IndexNames == {"A", "B"}
TextP == <<"p">>
TextQ == <<"q">>
ChunkP == ChunkObj(1, TextP, "doc1", Misc, <<>>)
ChunkQ == ChunkObj(1, TextQ, "doc1", Misc, <<>>)
ChunkPool == {ChunkP, ChunkQ}

\* The storage root as the constructor finds it: empty, or holding an
\* index "A" a process before this one built.
InitialDisks ==
    {<<>>, [n \in {"A"} |-> <<Passage(TextQ, TRUE), Passage(TextP, TRUE)>>]}

\* LEANNStore(index_dir): ImportError without the backend, else a fresh
\* instance (mkdir of the storage root creates no index).
Construct ==
    /\ ~constructed
    /\ lastCall.op = "none"
    /\ IF has_leann
       THEN /\ constructed' = TRUE
            /\ store' = NewStore
            /\ lastCall' = [NoCall EXCEPT !.op = "init", !.outcome = "ok"]
       ELSE /\ lastCall' = [NoCall EXCEPT !.op = "init",
                                          !.outcome = "ImportError"]
            /\ UNCHANGED <<constructed, store>>
    /\ UNCHANGED <<has_leann, disk, lastGood, prevGood, uploadCalled,
                   splitVars, docsVars, runVars>>

\* One call upload_chunks(chunks, name) under backend behaviour env
UploadCall(chunks, name, env) ==
    LET r == upload_chunks(store, disk, chunks, name, env)
    IN  /\ store' = r.store
        /\ disk' = r.disk
        /\ lastCall' = [op |-> "upload", chunks |-> chunks, name |-> name,
                        env |-> env, outcome |-> r.outcome,
                        from |-> [name |-> None, passages |-> <<>>]]
        /\ IF r.outcome = "ok"
           THEN /\ lastGood' = [name |-> name, passages |-> r.disk[name]]
                /\ prevGood' = lastGood
           ELSE UNCHANGED <<lastGood, prevGood>>
        /\ uploadCalled' = TRUE
        /\ UNCHANGED <<has_leann, constructed, splitVars, docsVars, runVars>>

\* --- SpecStore: upload_chunks and search calls in any order and number.
\* The backend either accepts everything or fails in build.

StoreChunkLists == {<<>>, <<ChunkP>>, <<ChunkQ>>, <<ChunkP, ChunkQ>>}

StoreEnvs ==
    {[rejects |-> {}, fail |-> k, failAt |-> 0] : k \in {"none", "build"}}

InitStore ==
    /\ has_leann \in BOOLEAN
    /\ disk \in InitialDisks
    /\ constructed = FALSE
    /\ store = NewStore
    /\ lastCall = NoCall
    /\ lastGood = NoUpload
    /\ prevGood = NoUpload
    /\ uploadCalled = FALSE
    /\ SplitIdle
    /\ DocsIdle
    /\ RunIdle

Upload ==
    /\ constructed
    /\ \E chunks \in StoreChunkLists, name \in IndexNames, env \in StoreEnvs :
          UploadCall(chunks, name, env)

Search ==
    /\ constructed
    /\ \E src \in {"loaded", "disk"} :
         LET r == search(store, disk, src)
         IN  /\ store' = r.store
             /\ lastCall' = [NoCall EXCEPT !.op = "search",
                                           !.outcome = r.outcome,
                                           !.from = r.from]
    /\ UNCHANGED <<has_leann, disk, constructed, lastGood, prevGood,
                   uploadCalled, splitVars, docsVars, runVars>>

NextStore == Construct \/ Upload \/ Search

SpecStore == InitStore /\ [][NextStore]_vars

\* --- SpecUpload: one upload_chunks call, with any chunk list and any
\* backend behaviour, on an instance that is fresh or has uploaded before.

ChunkLists == SeqsUpTo(ChunkPool, MaxChunks)

StoreAfterUpload ==
    [builder |-> [set |-> TRUE, path |-> "A",
                  added |-> <<Passage(TextQ, TRUE), Passage(TextP, TRUE)>>],
     searcher |-> NoSearcher, current_index_name |-> "A"]

InitUpload ==
    /\ has_leann = TRUE
    /\ disk \in InitialDisks
    /\ constructed = TRUE
    /\ \/ /\ store = NewStore
          /\ uploadCalled = FALSE
          /\ lastGood = NoUpload
       \/ /\ store = StoreAfterUpload
          /\ "A" \in DOMAIN disk
          /\ uploadCalled = TRUE
          /\ lastGood = [name |-> "A", passages |-> disk["A"]]
    /\ lastCall = NoCall
    /\ prevGood = NoUpload
    /\ SplitIdle
    /\ DocsIdle
    /\ RunIdle

UploadOnce ==
    /\ lastCall.op = "none"
    /\ \E chunks \in ChunkLists, name \in IndexNames :
         \E env \in BackendEnvs(chunks) : UploadCall(chunks, name, env)

NextUpload == UploadOnce

SpecUpload == InitUpload /\ [][NextUpload]_vars

---------------------------------------------------------------------------
(* main.run: the command, from the check of the documents root to the      *)
(* written report                                                          *)

DefaultIndexName == "auto-rag-index"

\* Lines 58-63: the index name given, else the doc_id of the first
\* processed document, else the default.
ChooseIndexName(given, rep) ==
    IF given # None THEN given
    ELSE IF rep.processed # <<>> THEN rep.processed[1].doc_id
    ELSE DefaultIndexName

\* Variant of the handlers of the upload phase without the catch-all.
AfterUploadImportErrorOnly(outcome) ==
    IF outcome \in {"ok", "skipped", "ImportError"} THEN "report"
    ELSE "crashed"

\* Lines 70-80: ImportError and every other Exception of the upload phase
\* are reported and swallowed; the command goes on to the report.
AfterUpload(outcome) == "report"

\* Backend behaviours of the command's one upload: no metadata rejected
\* or every chunk's, and each place a failure can come from.
RunEnvs(chunks) ==
    {[rejects |-> R, fail |-> k, failAt |-> 0] :
        R \in {{}, 1..Len(chunks)}, k \in {"none", "ctor", "build"}}
    \cup
    {[rejects |-> 1..Len(chunks), fail |-> "text", failAt |-> a] :
        a \in {1} \cap (1..Len(chunks))}

\* Trees of the command: files of every outcome of the try block.
RunTrees(n) == [1..n -> Companions]

InitRun ==
    /\ pc = "start"
    /\ docs_exists \in BOOLEAN
    /\ dry_run \in BOOLEAN
    /\ opt_index_name \in {None, "A"}
    /\ reportWrites = 0
    /\ uploadOutcome = "none"
    /\ \E n \in 0..MaxFiles :
          /\ docs_exists \/ n = 0
          /\ tree \in RunTrees(n)
    /\ auto_generate_yaml \in BOOLEAN
    /\ overwrite_yaml \in BOOLEAN
    /\ runs = 0
    /\ all_chunks = <<>>
    /\ report = [processed |-> <<>>, errors |-> <<>>]
    /\ treeBefore = tree
    /\ prevChunks = <<>>
    /\ has_leann \in BOOLEAN
    /\ disk \in InitialDisks
    /\ constructed = FALSE
    /\ store = NewStore
    /\ lastCall = NoCall
    /\ lastGood = NoUpload
    /\ prevGood = NoUpload
    /\ uploadCalled = FALSE
    /\ SplitIdle

\* Lines 32-38: exit(1) when the documents root does not exist
CheckDocs ==
    /\ pc = "start"
    /\ pc' = IF docs_exists THEN "process" ELSE "exit1"
    /\ UNCHANGED <<docs_exists, dry_run, opt_index_name, reportWrites,
                   uploadOutcome, splitVars, docsVars, storeVars>>

\* Lines 40-53: process_markdown_docs, which handles every per-file error
\* itself
ProcessDocs ==
    /\ pc = "process"
    /\ LET r == process_markdown_docs(tree, auto_generate_yaml,
                                      overwrite_yaml)
       IN  /\ tree' = r.tree
           /\ all_chunks' = r.chunks
           /\ report' = [processed |-> r.processed, errors |-> r.errors]
    /\ treeBefore' = tree
    /\ prevChunks' = all_chunks
    /\ runs' = runs + 1
    /\ pc' = "upload"
    /\ UNCHANGED <<docs_exists, dry_run, opt_index_name, reportWrites,
                   uploadOutcome, auto_generate_yaml, overwrite_yaml,
                   splitVars, storeVars>>

\* Lines 55-80: the upload phase
UploadPhase ==
    /\ pc = "upload"
    /\ IF dry_run
       THEN /\ uploadOutcome' = "skipped"
            /\ UNCHANGED storeVars
       ELSE IF ~has_leann
       THEN /\ uploadOutcome' = "ImportError"
            /\ UNCHANGED storeVars
       ELSE \E env \in RunEnvs(all_chunks) :
              LET name == ChooseIndexName(opt_index_name, report)
                  r == upload_chunks(NewStore, disk, all_chunks, name, env)
              IN  /\ uploadOutcome' = r.outcome
                  /\ constructed' = TRUE
                  /\ store' = r.store
                  /\ disk' = r.disk
                  /\ lastCall' = [op |-> "upload", chunks |-> all_chunks,
                                  name |-> name, env |-> env,
                                  outcome |-> r.outcome,
                                  from |-> [name |-> None,
                                            passages |-> <<>>]]
                  /\ IF r.outcome = "ok"
                     THEN /\ lastGood' = [name |-> name,
                                          passages |-> r.disk[name]]
                          /\ prevGood' = lastGood
                     ELSE UNCHANGED <<lastGood, prevGood>>
                  /\ uploadCalled' = TRUE
                  /\ UNCHANGED has_leann
    /\ pc' = AfterUpload(uploadOutcome')
    /\ UNCHANGED <<docs_exists, dry_run, opt_index_name, reportWrites,
                   splitVars, docsVars>>

\* Lines 82-85: json.dump of the report into report_file
WriteReport ==
    /\ pc = "report"
    /\ reportWrites' = reportWrites + 1
    /\ pc' = "done"
    /\ UNCHANGED <<docs_exists, dry_run, opt_index_name, uploadOutcome,
                   splitVars, docsVars, storeVars>>

NextRun == CheckDocs \/ ProcessDocs \/ UploadPhase \/ WriteReport

SpecRun == InitRun /\ [][NextRun]_vars

\* The command is one sequential thread: once process_markdown_docs has
\* returned, the upload phase and then the report step are taken.
SpecRunFair == SpecRun /\ WF_vars(UploadPhase) /\ WF_vars(WriteReport)

---------------------------------------------------------------------------
(* C10 *)

\* The break-marker lines of the body and the index of the first of them
\* (one past the last line when there is none), stated over the lines.
BodyLines == splitlines(body)
MarkerIdx == {i \in 1..Len(BodyLines) : IsBreakMarker(BodyLines[i])}
FirstMarker == IF MarkerIdx = {} THEN Len(BodyLines) + 1
               ELSE CHOOSE i \in MarkerIdx : \A j \in MarkerIdx : i <= j
PreambleNonWhite ==
    \E i \in 1..(FirstMarker - 1) :
        \E k \in 1..Len(BodyLines[i]) : BodyLines[i][k] \notin Whitespace

\* C10: the number of chunks split_to_chunks returns is the number of
\* break-marker lines, plus one exactly when the text before the first
\* break marker holds a non-whitespace character; so it is
\* len(parse_all_headers(body)) or that plus one.
C10_ChunkCount ==
    splitDone =>
        /\ Len(splitOut) = Cardinality(MarkerIdx)
                           + (IF PreambleNonWhite THEN 1 ELSE 0)
        /\ (MarkerIdx = {} =>
               Len(splitOut) = (IF \E k \in 1..Len(body) :
                                      body[k] \notin Whitespace
                                THEN 1 ELSE 0))
        /\ (FirstMarker = 1 /\ MarkerIdx # {} =>
               Len(splitOut) = Cardinality(MarkerIdx))
        /\ Len(splitOut) \in {Len(headersOut), Len(headersOut) + 1}

\* A body with a whitespace-only preamble, two headings, and a split done.
C10_Witness ==
    /\ splitDone
    /\ Cardinality(MarkerIdx) = 2
    /\ FirstMarker = 2
    /\ Len(splitOut) = 2

---------------------------------------------------------------------------
(* Claims about process_markdown_docs *)

Range(seq) == {seq[k] : k \in 1..Len(seq)}
CountOf(seq, i) == Cardinality({k \in 1..Len(seq) : seq[k].file = i})
ChunksOfFile(i) == {k \in 1..Len(all_chunks) : all_chunks[k].path = i}

\* The sidecar a document is described by: .yaml if it exists, else .yml
SidecarBefore(i) ==
    IF Exists(treeBefore[i].yaml) THEN treeBefore[i].yaml
    ELSE treeBefore[i].yml

\* C1: with auto_generate_yaml and without overwrite_yaml, a second run on
\* the tree the first run left changes no sidecar and returns the same
\* chunk accumulator.
C1_Idempotent ==
    (runs >= 2 /\ auto_generate_yaml /\ ~overwrite_yaml) =>
        /\ tree = treeBefore
        /\ all_chunks = prevChunks

\* Two runs done; the first wrote a .yaml from a .yml descriptor (the id
\* "y" is found in .yml files only), and chunks were produced.
C1_Witness ==
    /\ runs = 2 /\ auto_generate_yaml /\ ~overwrite_yaml
    /\ \E i \in 1..Len(tree) :
          /\ tree[i].yaml.kind = "map" /\ tree[i].yaml.id = "y"
          /\ tree[i].body = BodyHead
          /\ ChunksOfFile(i) # {}

\* C5: after a run every file of the tree has exactly one entry, in
\* processed or in errors; an unreadable file is in errors; a file in
\* errors has no chunk in the accumulator.
C5_FailureIsolation ==
    runs >= 1 =>
        /\ Len(tree) = Len(treeBefore)
        /\ \A i \in 1..Len(treeBefore) :
              /\ CountOf(report.processed, i) + CountOf(report.errors, i) = 1
              /\ (~treeBefore[i].readable => CountOf(report.errors, i) = 1)
              /\ (CountOf(report.errors, i) = 1 => ChunksOfFile(i) = {})
        /\ \A e \in Range(report.processed) \cup Range(report.errors) :
              e.file \in 1..Len(treeBefore)

\* The first file failed on its sidecar write, the second was processed
\* and contributed chunks.
C5_Witness ==
    /\ runs = 1
    /\ Len(tree) >= 2
    /\ \E e \in Range(report.errors) : e.file = 1 /\ e.err = "write"
    /\ \E e \in Range(report.processed) : e.file = 2 /\ e.chunks > 0
    /\ ChunksOfFile(2) # {}

ExpectedDocId(i) ==
    IF overwrite_yaml THEN Stem(i)
    ELSE IF SidecarBefore(i).kind = "map" /\ SidecarBefore(i).hasId
         THEN SidecarBefore(i).id
         ELSE Stem(i)

ExpectedTags(i) ==
    IF overwrite_yaml THEN parse_all_headers(treeBefore[i].body)
    ELSE IF SidecarBefore(i).kind = "map"
            /\ SidecarBefore(i).tagsKind \in {"scalar", "list"}
            /\ SidecarBefore(i).tagsVal # <<>>
         THEN SidecarBefore(i).tagsVal
         ELSE parse_all_headers(treeBefore[i].body)

\* C6: the processed entry and the chunks of a document carry the
\* reconciled doc_id and tags: stem and heading titles under
\* overwrite_yaml; otherwise the sidecar's doc_id if present else the stem,
\* and the sidecar's tags if non-empty (a scalar as a one-element list)
\* else the heading titles.
C6_Reconciliation ==
    runs >= 1 =>
        \A e \in Range(report.processed) :
            /\ e.doc_id = ExpectedDocId(e.file)
            /\ e.tags = ExpectedTags(e.file)
            /\ \A k \in ChunksOfFile(e.file) :
                  /\ all_chunks[k].doc_id = ExpectedDocId(e.file)
                  /\ all_chunks[k].tags = ExpectedTags(e.file)

\* A processed document with chunks whose sidecar holds a bare scalar as
\* tags and no doc_id, run without overwrite_yaml.
C6_Witness ==
    /\ runs = 1
    /\ ~overwrite_yaml
    /\ \E e \in Range(report.processed) :
          /\ SidecarBefore(e.file).tagsKind = "scalar"
          /\ treeBefore[e.file].body = BodyHead
          /\ e.tags = SidecarBefore(e.file).tagsVal
          /\ e.doc_id = Stem(e.file)
          /\ \E k \in ChunksOfFile(e.file) :
                all_chunks[k].tags = SidecarBefore(e.file).tagsVal

\* C7: with auto_generate_yaml, a processed document's sidecar is written
\* with the reconciled doc_id and tags whenever no sidecar existed, or
\* overwrite_yaml is set, or the reconciled doc_id differs from the stored
\* one, or the sidecar had no tags and the headings produced some.
C7_RewriteRule ==
    (runs >= 1 /\ auto_generate_yaml) =>
        \A e \in Range(report.processed) :
            LET f == treeBefore[e.file]
                sc == SidecarBefore(e.file)
                stored == IF sc.kind = "map" /\ sc.hasId THEN sc.id ELSE None
                noTags == ~(sc.kind = "map" /\ sc.tagsVal # <<>>)
            IN  (\/ (~Exists(f.yaml) /\ ~Exists(f.yml))
                 \/ overwrite_yaml
                 \/ e.doc_id # stored
                 \/ (noTags /\ parse_all_headers(f.body) # <<>>))
                => tree[e.file].yaml = DumpedMetadata(e.doc_id, e.tags)

---------------------------------------------------------------------------
(* Claims about LEANNStore *)

Texts(seq) == [k \in 1..Len(seq) |-> seq[k].text]

\* C2: when upload_chunks succeeds under the name of the successful upload
\* before it, the index stored under that name afterwards holds exactly the
\* chunks of the later call, in order, and nothing of the earlier one.
C2_FullReplace ==
    (/\ lastCall.op = "upload"
     /\ lastCall.outcome = "ok"
     /\ prevGood.name = lastCall.name) =>
        /\ lastCall.name \in DOMAIN disk
        /\ Texts(disk[lastCall.name]) = Texts(lastCall.chunks)

\* Two successful uploads under one name, the earlier with a chunk the
\* later does not have.
C2_Witness ==
    /\ lastCall.op = "upload"
    /\ lastCall.outcome = "ok"
    /\ prevGood.name = lastCall.name
    /\ Texts(prevGood.passages) = <<TextP, TextQ>>
    /\ Texts(lastCall.chunks) = <<TextQ>>

\* C3: a search that returns results (it succeeds, over an index that
\* holds passages) is answered from the index that the latest successful
\* upload_chunks call on the instance established: the Searcher that
\* answers is open on the directory of that upload's name.
C3_SearchSeesLatestUpload ==
    (/\ lastCall.op = "search"
     /\ lastCall.outcome = "ok"
     /\ lastCall.from.passages # <<>>) =>
        lastCall.from.name = lastGood.name

\* C4: search on an instance on which upload_chunks was never called
\* raises ValueError, whatever the storage root holds.
C4_SearchBeforeUpload ==
    (lastCall.op = "search" /\ ~uploadCalled) =>
        lastCall.outcome = "ValueError"

\* A search before any upload, over a storage root that holds an index.
C4_Witness ==
    /\ lastCall.op = "search"
    /\ ~uploadCalled
    /\ "A" \in DOMAIN disk
    /\ lastCall.outcome = "ValueError"

\* C8: an upload in which the backend does no more than reject chunks'
\* metadata succeeds, and whenever build is reached the builder holds every
\* chunk's text exactly once, in input order.
C8_MetadataFallback ==
    lastCall.op = "upload" =>
        /\ (lastCall.env.fail = "none" => lastCall.outcome = "ok")
        /\ (lastCall.env.fail \in {"none", "build"} =>
               /\ store.builder.set
               /\ Texts(store.builder.added) = Texts(lastCall.chunks))

\* An upload of two chunks, the metadata of the first rejected, that
\* succeeded with the first text stored without metadata.
C8_Witness ==
    /\ lastCall.op = "upload"
    /\ Len(lastCall.chunks) = 2
    /\ lastCall.env.rejects = {1}
    /\ lastCall.outcome = "ok"
    /\ disk[lastCall.name] = <<Passage(lastCall.chunks[1].text, FALSE),
                               Passage(lastCall.chunks[2].text, TRUE)>>

---------------------------------------------------------------------------
(* Claim about main.run *)

\* C9: once process_markdown_docs has returned, the report is eventually
\* written, and it is never written twice, however the upload phase ends.
C9_ReportAlwaysWritten ==
    /\ [](reportWrites <= 1)
    /\ [](pc = "upload" => <>(pc = "done" /\ reportWrites = 1))

\* The command finished with the report written after an upload that
\* failed in the backend.
C9_Witness ==
    /\ pc = "done"
    /\ reportWrites = 1
    /\ ~dry_run
    /\ uploadOutcome = "BackendError"
    /\ lastCall.env.fail = "build"

===========================================================================
